---- MODULE Spec2Model ----
(***************************************************************************)
(* Model of axum-unix: serve() binds an Endpoint (TCP or Unix domain       *)
(* socket), provisions the socket's ownership and mode, notifies the       *)
(* caller, and spawns the supervisor task `listen`, which accepts          *)
(* connections until the CancellationToken fires, then drains the          *)
(* connection tasks.  A PathGuard removes the Unix socket file on drop.    *)
(***************************************************************************)
EXTENDS Integers, Sequences, FiniteSets, TLC

\* ---------------------------------------------------------------- bounds
MaxConns == 2          \* connection attempts made by clients per serve call
MaxCalls == 2          \* successive serve() calls on the same path
MaxAcceptErrors == 1   \* failed accept() calls per serve call
MaxCancels == 2        \* token.cancel() calls per serve call
MaxLen == 2            \* characters in an address string or socket path

Conns == 1..MaxConns

\* Option<T> is a set with at most one element.
None == {}
Some(v) == {v}

\* ------------------------------------------------------- endpoint inputs
\* Strings are sequences of characters.  A numeric id is held as its
\* canonical decimal string (no sign, no leading zero), which keeps the full
\* u32 range exact.
Digits == {"0", "1", "2", "3", "4", "5", "6", "7", "8", "9"}
DigitOrder == <<"0", "1", "2", "3", "4", "5", "6", "7", "8", "9">>
DigitValue(ch) == CHOOSE i \in 0..9 : DigitOrder[i + 1] = ch

\* u32::MAX = 4294967295
U32MaxDigits == <<"4", "2", "9", "4", "9", "6", "7", "2", "9", "5">>

RECURSIVE StripZeros(_)
StripZeros(s) ==
    IF Len(s) > 1 /\ Head(s) = "0" THEN StripZeros(Tail(s)) ELSE s

RECURSIVE LexLeq(_, _)
\* a <= b for digit strings of equal length
LexLeq(a, b) ==
    IF a = <<>> THEN TRUE
    ELSE IF DigitValue(Head(a)) < DigitValue(Head(b)) THEN TRUE
    ELSE IF DigitValue(Head(a)) > DigitValue(Head(b)) THEN FALSE
    ELSE LexLeq(Tail(a), Tail(b))

\* value.parse::<u32>().ok(): an optional leading "+", then one or more
\* decimal digits, the value within u32.
ParseU32(s) ==
    LET body == IF s # <<>> /\ Head(s) = "+" THEN Tail(s) ELSE s
    IN  IF body = <<>> \/ \E i \in DOMAIN body : body[i] \notin Digits
        THEN None
        ELSE LET n == StripZeros(body) IN
             IF Len(n) < Len(U32MaxDigits)
                \/ (Len(n) = Len(U32MaxDigits) /\ LexLeq(n, U32MaxDigits))
             THEN Some(n) ELSE None

\* Account and group databases consulted by User::from_name / Group::from_name.
UserDb == [name \in {<<"w">>} |-> <<"3", "3">>]
GroupDb == [name \in {<<"w">>} |-> <<"3", "4">>]

Inet == [kind |-> "Inet", mode |-> None, owner |-> None, group |-> None]
Unix(mode, owner, group) ==
    [kind |-> "Unix", mode |-> mode, owner |-> owner, group |-> group]

\* The endpoints serve() is called with: a TCP address; a bare socket path;
\* a mode alone (0o600); numeric owner and group with a set-uid mode
\* (0o4755); owner and group by name; an owner and a group that do not exist.
Endpoints ==
    {Inet,
     Unix(None, None, None),
     Unix(Some(384), None, None),
     Unix(Some(2541), Some(<<"7">>), Some(<<"8">>)),
     Unix(None, Some(<<"w">>), Some(<<"w">>)),
     Unix(Some(384), Some(<<"g">>), None),
     Unix(None, None, Some(<<"g">>))}

\* ownership and mode of a freshly bound socket file (process uid/gid, 0o755)
ProcUid == <<"1", "0", "0", "0">>
ProcGid == <<"1", "0", "0", "0">>
DefaultMode == 493
NoFile == [exists |-> FALSE, uid |-> <<>>, gid |-> <<>>, mode |-> 0]

\* ----------------------------------------------- parsing and serde codec
\* Address strings and socket paths: a path separator, a letter, a colon.
Alphabet == {"/", "a", ":"}
Strings == UNION {[1..n -> Alphabet] : n \in 0..MaxLen}

\* Result<T, Infallible>: always Ok.
Ok(v) == [ok |-> TRUE, v |-> v]
Unwrap(r) == r.v

\* PathBuf::from(s) owns the bytes of s; to_str() hands them back.
PathBuf(s) == [inner |-> s]
ToStr(p) == p.inner

StartsWith(s, ch) == s # <<>> /\ Head(s) = ch

EndpointInet(s) == [kind |-> "Inet", addr |-> s]
EndpointUnix(uds) == [kind |-> "Unix", uds |-> uds]

\* impl FromStr for UnixDomainSocket: the path, everything else Default.
UnixDomainSocketFromStr(s) ==
    Ok([path |-> PathBuf(s), mode |-> None, owner |-> None, group |-> None])

\* EndpointFromStr as it would be if any string holding a path separator
\* were taken for a socket path.
EndpointFromStrContains(s) ==
    IF \E i \in DOMAIN s : s[i] = "/"
    THEN Ok(EndpointUnix(Unwrap(UnixDomainSocketFromStr(s))))
    ELSE Ok(EndpointInet(s))

\* impl FromStr for Endpoint
EndpointFromStr(s) ==
    IF StartsWith(s, "/")
    THEN Ok(EndpointUnix(Unwrap(UnixDomainSocketFromStr(s))))
    ELSE Ok(EndpointInet(s))

\* The serde data model as far as Endpoint uses it: a string, or a map whose
\* entry for a key is None when the key was not written.
WireStr(str) == [form |-> "str", str |-> str]
WireMap(path, mode, owner, group) ==
    [form |-> "map",
     map |-> [path |-> path, mode |-> mode, owner |-> owner, group |-> group]]

\* impl Serialize for Endpoint
Serialize(e) ==
    IF e.kind = "Inet" THEN WireStr(e.addr)
    ELSE IF e.uds.mode = None /\ e.uds.owner = None /\ e.uds.group = None
         THEN WireStr(ToStr(e.uds.path))
         ELSE WireMap(Some(ToStr(e.uds.path)), e.uds.mode, e.uds.owner,
                      e.uds.group)

\* EndpointVisitor::visit_str
VisitStr(str) == Unwrap(EndpointFromStr(str))

\* EndpointVisitor::visit_map, through the derived Deserialize of
\* UnixDomainSocket: path is required, an absent Option field is None.
VisitMap(map) ==
    EndpointUnix([path |-> PathBuf(CHOOSE str \in map.path : TRUE),
                  mode |-> map.mode, owner |-> map.owner,
                  group |-> map.group])

\* impl Deserialize for Endpoint: deserialize_any(EndpointVisitor)
Deserialize(w) ==
    IF w.form = "str" THEN VisitStr(w.str) ELSE VisitMap(w.map)

\* The Endpoint values handed to serialize.
SocketSettings ==
    [path : {PathBuf(str) : str \in Strings},
     mode : {None, Some(384)},
     owner : {None, Some(<<"w">>)},
     group : {None, Some(<<"w">>)}]
EndpointValues ==
    {EndpointInet(str) : str \in Strings}
        \cup {EndpointUnix(uds) : uds \in SocketSettings}

VARIABLES
    callNo,      \* index of the current serve() call
    endpoint,    \* the Endpoint passed to the current serve() call
    servePc,     \* position of the caller inside serve()
    listener,    \* "none" | "held" | "released"
    guard,       \* PathGuard: "none" | "held" | "dropped"
    file,        \* the socket path on the filesystem
    events,      \* what the current serve() call and its task have done
    cancelled,   \* CancellationToken state
    cancelCalls, \* token.cancel() calls made during this serve() call
    supPc,       \* position of the supervisor task (listen)
    cur,         \* the socket returned by accept, not yet spawned
    conn,        \* per connection: its status
    graceful,    \* per connection: graceful_shutdown() calls
    fused,       \* per connection: the fused cancellation future completed
    busy,        \* per connection: an exchange is in progress
    tracker,     \* TaskTracker: tasks spawned and not finished
    trackerClosed,
    acceptErrors,
    text,        \* codec: the string handed to Endpoint::from_str
    parsed,      \* codec: what from_str returned for text
    original,    \* codec: the Endpoint handed to serialize
    wire,        \* codec: what serialize wrote
    back         \* codec: what deserialize read from wire

vars == <<callNo, endpoint, servePc, listener, guard, file, events, cancelled,
          cancelCalls, supPc, cur, conn, graceful, fused, busy,
          tracker, trackerClosed, acceptErrors,
          text, parsed, original, wire, back>>

serveVars == <<servePc, listener, guard, file, events>>
supVars == <<supPc, cur, tracker, trackerClosed, acceptErrors>>
connVars == <<conn, graceful, fused, busy>>
tokenVars == <<cancelled, cancelCalls>>
codecVars == <<text, parsed, original, wire, back>>

Log(e) == events' = Append(events, e)

Count(e) == Cardinality({i \in DOMAIN events : events[i] = e})
\* every occurrence of an event of `later` has an event of `earlier` before it
Precedes(earlier, later) ==
    \A i \in DOMAIN events :
        events[i] \in later => \E j \in 1..(i - 1) : events[j] \in earlier

Init ==
    /\ callNo = 1
    /\ endpoint \in Endpoints
    /\ servePc = "start"
    /\ listener = "none"
    /\ guard = "none"
    /\ file = NoFile
    /\ events = <<>>
    /\ cancelled = FALSE
    /\ cancelCalls = 0
    /\ supPc = "none"
    /\ cur = None
    /\ conn = [c \in Conns |-> "idle"]
    /\ graceful = [c \in Conns |-> 0]
    /\ fused = [c \in Conns |-> FALSE]
    /\ busy = [c \in Conns |-> FALSE]
    /\ tracker = {}
    /\ trackerClosed = FALSE
    /\ acceptErrors = 0
    /\ text = <<>>
    /\ parsed = None
    /\ original = EndpointInet(<<>>)
    /\ wire = None
    /\ back = None

\* ------------------------------------------------------------ primitives
\* drop(listener): the listening socket closes; connections still queued
\* in its backlog are reset.
ReleaseListener ==
    /\ listener' = "released"
    /\ conn' = [c \in Conns |-> IF conn[c] = "pending" THEN "reset"
                                ELSE conn[c]]

\* PathGuardDrop as it would be if the guard were forgotten
\* (std::mem::forget) instead of dropped: remove_file never runs.
PathGuardDropNoRemove ==
    /\ guard' = "dropped"
    /\ UNCHANGED <<file, events>>

\* PathGuard::drop: std::fs::remove_file(path), the result only logged.
PathGuardDrop ==
    /\ guard' = "dropped"
    /\ \E ok \in BOOLEAN :
         IF ok /\ file.exists
         THEN file' = NoFile /\ Log("remove_ok")
         ELSE file' = file /\ Log("remove_err")

\* ------------------------------------------------------------ serve_inet
\* TcpListener::bind(addr).await, `?` on failure.
BindInet ==
    /\ servePc = "start"
    /\ endpoint.kind = "Inet"
    /\ \E ok \in BOOLEAN :
         IF ok
         THEN listener' = "held" /\ servePc' = "bound" /\ Log("bind_ok")
         ELSE listener' = listener /\ servePc' = "err" /\ Log("bind_err")
    /\ UNCHANGED <<codecVars, callNo, endpoint, guard, file, tokenVars, supVars, connVars>>

\* OnBoundInet as it would be if the Err arm only warned and did not call f.
OnBoundInetSkipOnErr ==
    /\ servePc = "bound"
    /\ endpoint.kind = "Inet"
    /\ \E addrOk \in BOOLEAN :
         events' = events \o (IF addrOk THEN <<"addr_ok", "onBound_some">>
                                       ELSE <<"addr_err">>)
    /\ servePc' = "notified"
    /\ UNCHANGED <<codecVars, callNo, endpoint, listener, guard, file, tokenVars,
                   supVars, connVars>>

\* listener.local_addr(): f(Some(addr)) or f(None).
OnBoundInet ==
    /\ servePc = "bound"
    /\ endpoint.kind = "Inet"
    /\ \E addrOk \in BOOLEAN :
         events' = events \o (IF addrOk THEN <<"addr_ok", "onBound_some">>
                                       ELSE <<"addr_err", "onBound_none">>)
    /\ servePc' = "notified"
    /\ UNCHANGED <<codecVars, callNo, endpoint, listener, guard, file, tokenVars,
                   supVars, connVars>>

\* tokio::spawn(async move { listen(..).await [; drop(guard)] }); Ok(handle)
SpawnSupervisor ==
    /\ servePc = "notified"
    /\ servePc' = "ok"
    /\ supPc' = "select"
    /\ Log("spawn")
    /\ UNCHANGED <<codecVars, callNo, endpoint, listener, guard, file, tokenVars, cur,
                   tracker, trackerClosed, acceptErrors, connVars>>

\* ------------------------------------------------------------ serve_unix
\* bind(2) on a Unix socket path fails with EADDRINUSE when the path exists.
CanBindUnix == ~file.exists

\* BindUnix as it would be if PathGuard(path) were built before the bind:
\* a failed bind drops the guard, which removes whatever is at the path.
BindUnixGuardFirst ==
    /\ servePc = "start"
    /\ endpoint.kind = "Unix"
    /\ \E ok \in BOOLEAN :
         IF ok /\ CanBindUnix
         THEN /\ listener' = "held"
              /\ guard' = "held"
              /\ file' = [exists |-> TRUE, uid |-> ProcUid, gid |-> ProcGid,
                          mode |-> DefaultMode]
              /\ servePc' = "bound"
              /\ Log("bind_ok")
         ELSE /\ listener' = listener
              /\ guard' = "dropped"
              /\ file' = NoFile
              /\ servePc' = "err"
              /\ Log("bind_err")
    /\ UNCHANGED <<codecVars, callNo, endpoint, tokenVars, supVars, connVars>>

\* UnixListener::bind(path) creates the socket file and starts listening;
\* it fails when the path already exists.  Then PathGuard(path) is built.
BindUnix ==
    /\ servePc = "start"
    /\ endpoint.kind = "Unix"
    /\ \E ok \in BOOLEAN :
         IF ok /\ CanBindUnix
         THEN /\ listener' = "held"
              /\ guard' = "held"
              /\ file' = [exists |-> TRUE, uid |-> ProcUid, gid |-> ProcGid,
                          mode |-> DefaultMode]
              /\ servePc' = "bound"
              /\ Log("bind_ok")
         ELSE /\ UNCHANGED <<listener, guard, file>>
              /\ servePc' = "err"
              /\ Log("bind_err")
    /\ UNCHANGED <<codecVars, callNo, endpoint, tokenVars, supVars, connVars>>

\* set_permissions with its two steps swapped
ChmodThenChown == <<"chmod", "chown">>

\* set_permissions: self.chown()?; self.chmod()?; Ok(())
SetPermissionsOrder == <<"chown", "chmod">>
\* where serve_unix stands before and after a step of set_permissions
PermPcBefore(step) ==
    IF SetPermissionsOrder[1] = step THEN "bound" ELSE "midperm"
PermPcAfter(step) ==
    IF SetPermissionsOrder[1] = step THEN "midperm" ELSE "provisioned"

\* Resolution of an owner or group string: a numeric id is used directly,
\* anything else is looked up by name.  Result: <<"ok", Option<id>>> or
\* <<"err", None>>; lookupOk is the outcome of the database query itself.
Resolve(field, db, lookupOk) ==
    IF field = None THEN <<"ok", None>>
    ELSE LET value == CHOOSE v \in field : TRUE
             id == ParseU32(value)
         IN  IF id # None THEN <<"ok", id>>
             ELSE IF ~lookupOk THEN <<"err", None>>
             ELSE IF value \in DOMAIN db THEN <<"ok", Some(db[value])>>
             ELSE <<"err", None>>

\* fs::chown(path, owner, group): a part left unset is unchanged; the
\* platform may clear the set-uid/set-gid/sticky bits.
ApplyChown(f, owner, group, clearSpecial) ==
    [f EXCEPT !.uid = IF owner = None THEN @ ELSE CHOOSE v \in owner : TRUE,
              !.gid = IF group = None THEN @ ELSE CHOOSE v \in group : TRUE,
              !.mode = IF clearSpecial THEN @ % 512 ELSE @]

\* UnixDomainSocket::chown
Chown ==
    /\ servePc = PermPcBefore("chown")
    /\ endpoint.kind = "Unix"
    /\ \E lookupOk \in BOOLEAN, applyOk \in BOOLEAN, clearSpecial \in BOOLEAN :
         LET owner == Resolve(endpoint.owner, UserDb, lookupOk)
             group == Resolve(endpoint.group, GroupDb, lookupOk)
         IN  IF owner[1] = "ok" /\ group[1] = "ok" /\ applyOk
             THEN /\ file' = ApplyChown(file, owner[2], group[2], clearSpecial)
                  /\ servePc' = PermPcAfter("chown")
                  /\ Log("chown_ok")
             ELSE /\ file' = file
                  /\ servePc' = "failing"
                  /\ Log("chown_err")
    /\ UNCHANGED <<codecVars, callNo, endpoint, listener, guard, tokenVars, supVars,
                   connVars>>

\* UnixDomainSocket::chmod
Chmod ==
    /\ servePc = PermPcBefore("chmod")
    /\ endpoint.kind = "Unix"
    /\ IF endpoint.mode = None
       THEN /\ servePc' = PermPcAfter("chmod")
            /\ UNCHANGED <<file, events>>
       ELSE \E applyOk \in BOOLEAN :
              IF applyOk
              THEN /\ file' = [file EXCEPT
                                 !.mode = CHOOSE m \in endpoint.mode : TRUE]
                   /\ servePc' = PermPcAfter("chmod")
                   /\ Log("chmod_ok")
              ELSE /\ file' = file
                   /\ servePc' = "failing"
                   /\ Log("chmod_err")
    /\ UNCHANGED <<codecVars, callNo, endpoint, listener, guard, tokenVars, supVars,
                   connVars>>

\* f(None)
OnBoundUnix ==
    /\ servePc = "provisioned"
    /\ servePc' = "notified"
    /\ Log("onBound_none")
    /\ UNCHANGED <<codecVars, callNo, endpoint, listener, guard, file, tokenVars,
                   supVars, connVars>>

\* `uds.set_permissions()?` returned early: the locals of serve_unix are
\* dropped in reverse order of declaration, guard first, then listener.
EarlyDropGuard ==
    /\ servePc = "failing"
    /\ guard = "held"
    /\ PathGuardDrop
    /\ UNCHANGED <<codecVars, callNo, endpoint, servePc, listener, tokenVars, supVars,
                   connVars>>

\* EarlyDropListener as it would be if the listener outlived the early
\* return (moved into a task spawned before set_permissions).
EarlyReturnLeakListener ==
    /\ servePc = "failing"
    /\ guard = "dropped"
    /\ servePc' = "err"
    /\ UNCHANGED <<codecVars, callNo, endpoint, listener, guard, file, events, tokenVars,
                   supVars, connVars>>

EarlyDropListener ==
    /\ servePc = "failing"
    /\ guard = "dropped"
    /\ ReleaseListener
    /\ Log("listener_release")
    /\ servePc' = "err"
    /\ UNCHANGED <<codecVars, callNo, endpoint, guard, file, tokenVars, supVars, graceful, fused, busy>>

\* ---------------------------------------------------------------- listen
\* Accept as it would be if the cancelled() branch logged without leaving
\* the loop: the listener is polled again after cancellation was observed.
AcceptAfterBreak(c) ==
    /\ supPc \in {"select", "broken"}
    /\ conn[c] = "pending"
    /\ conn' = [conn EXCEPT ![c] = "accepted"]
    /\ cur' = Some(c)
    /\ supPc' = "spawning"
    /\ UNCHANGED <<codecVars, callNo, endpoint, serveVars, tokenVars, tracker,
                   trackerClosed, acceptErrors, graceful, fused, busy>>

\* Accept as it would be if the loop awaited each handler before its next
\* select: a connection is accepted only when no task is outstanding.
AcceptWhenIdle(c) ==
    /\ supPc = "select"
    /\ tracker = {}
    /\ conn[c] = "pending"
    /\ conn' = [conn EXCEPT ![c] = "accepted"]
    /\ cur' = Some(c)
    /\ supPc' = "spawning"
    /\ UNCHANGED <<codecVars, callNo, endpoint, serveVars, tokenVars, tracker,
                   trackerClosed, acceptErrors, graceful, fused, busy>>

\* select!: listener.accept() is ready with a connection.
Accept(c) ==
    /\ supPc = "select"
    /\ conn[c] = "pending"
    /\ conn' = [conn EXCEPT ![c] = "accepted"]
    /\ cur' = Some(c)
    /\ supPc' = "spawning"
    /\ UNCHANGED <<codecVars, callNo, endpoint, serveVars, tokenVars, tracker,
                   trackerClosed, acceptErrors, graceful, fused, busy>>

\* AcceptErr as it would be if the error left the loop (`break`, or `?`)
\* instead of `continue`.
AcceptErrFatal ==
    /\ supPc = "select"
    /\ acceptErrors < MaxAcceptErrors
    /\ acceptErrors' = acceptErrors + 1
    /\ supPc' = "broken"
    /\ UNCHANGED <<codecVars, callNo, endpoint, serveVars, tokenVars, cur,
                   tracker, trackerClosed, connVars>>

\* select!: listener.accept() is ready with an error: log and continue.
AcceptErr ==
    /\ supPc = "select"
    /\ acceptErrors < MaxAcceptErrors
    /\ acceptErrors' = acceptErrors + 1
    /\ UNCHANGED <<codecVars, callNo, endpoint, serveVars, tokenVars, supPc, cur,
                   tracker, trackerClosed, connVars>>

\* select!: token.cancelled() is ready: break.
Break ==
    /\ supPc = "select"
    /\ cancelled
    /\ supPc' = "broken"
    /\ UNCHANGED <<codecVars, callNo, endpoint, serveVars, tokenVars, cur, tracker,
                   trackerClosed, acceptErrors, connVars>>

\* TrackerSpawn as it would be with tokio::spawn in place of tracker.spawn:
\* the task runs but the tracker does not know it.
SpawnUntracked ==
    /\ supPc = "spawning"
    /\ tracker' = tracker
    /\ conn' = [c \in Conns |-> IF c \in cur THEN "open" ELSE conn[c]]
    /\ cur' = None
    /\ supPc' = "select"
    /\ UNCHANGED <<codecVars, callNo, endpoint, serveVars, tokenVars, trackerClosed,
                   acceptErrors, graceful, fused, busy>>

\* TrackerSpawn as it would be if the handler learnt of cancellation only
\* from a cancel() made after its spawn: for a token already cancelled the
\* handler's cancellation future never completes.
TrackerSpawnMissesCancelled ==
    /\ supPc = "spawning"
    /\ tracker' = tracker \cup cur
    /\ conn' = [c \in Conns |-> IF c \in cur THEN "open" ELSE conn[c]]
    /\ fused' = [c \in Conns |-> IF c \in cur THEN cancelled ELSE fused[c]]
    /\ cur' = None
    /\ supPc' = "select"
    /\ UNCHANGED <<codecVars, callNo, endpoint, serveVars, tokenVars, trackerClosed,
                   acceptErrors, graceful, busy>>

\* tracker.spawn(async move { .. }) for the accepted socket.
TrackerSpawn ==
    /\ supPc = "spawning"
    /\ tracker' = tracker \cup cur
    /\ conn' = [c \in Conns |-> IF c \in cur THEN "open" ELSE conn[c]]
    /\ cur' = None
    /\ supPc' = "select"
    /\ UNCHANGED <<codecVars, callNo, endpoint, serveVars, tokenVars, trackerClosed,
                   acceptErrors, graceful, fused, busy>>

\* DropListener as it would be without the explicit drop(listener): the
\* listening socket stays open while the tasks drain.
DropListenerKept ==
    /\ supPc = "broken"
    /\ supPc' = "closing"
    /\ UNCHANGED <<codecVars, callNo, endpoint, serveVars, tokenVars, cur, tracker,
                   trackerClosed, acceptErrors, connVars>>

\* drop(listener)
DropListener ==
    /\ supPc = "broken"
    /\ ReleaseListener
    /\ Log("listener_release")
    /\ supPc' = "closing"
    /\ UNCHANGED <<codecVars, callNo, endpoint, servePc, guard, file, tokenVars, cur,
                   tracker, trackerClosed, acceptErrors,
                   graceful, fused, busy>>

\* TrackerClose as it would be without tracker.close(): wait() on a
\* tracker that was never closed does not resolve.
TrackerCloseForgotten ==
    /\ supPc = "closing"
    /\ trackerClosed' = trackerClosed
    /\ supPc' = "waiting"
    /\ UNCHANGED <<codecVars, callNo, endpoint, serveVars, tokenVars, cur, tracker,
                   acceptErrors, connVars>>

\* tracker.close()
TrackerClose ==
    /\ supPc = "closing"
    /\ trackerClosed' = TRUE
    /\ supPc' = "waiting"
    /\ UNCHANGED <<codecVars, callNo, endpoint, serveVars, tokenVars, cur, tracker,
                   acceptErrors, connVars>>

\* TrackerWait as it would be if the wait resolved on close alone.
TrackerWaitNoDrain ==
    /\ supPc = "waiting"
    /\ trackerClosed
    /\ supPc' = IF endpoint.kind = "Unix" THEN "listened" ELSE "done"
    /\ UNCHANGED <<codecVars, callNo, endpoint, serveVars, tokenVars, cur, tracker,
                   trackerClosed, acceptErrors, connVars>>

\* tracker.wait().await resolves: the tracker is closed and empty.
TrackerWait ==
    /\ supPc = "waiting"
    /\ trackerClosed
    /\ tracker = {}
    /\ supPc' = IF endpoint.kind = "Unix" THEN "listened" ELSE "done"
    /\ UNCHANGED <<codecVars, callNo, endpoint, serveVars, tokenVars, cur, tracker,
                   trackerClosed, acceptErrors, connVars>>

\* drop(guard) at the end of the task spawned by serve_unix.
TaskDropGuard ==
    /\ supPc = "listened"
    /\ PathGuardDrop
    /\ supPc' = "done"
    /\ UNCHANGED <<codecVars, callNo, endpoint, servePc, listener, tokenVars, cur,
                   tracker, trackerClosed, acceptErrors, connVars>>

\* HandlerCancel as it would be if cancellation aborted the task: the
\* handler breaks out of its loop and drops the connection.
HandlerCancelAborts(c) ==
    /\ conn[c] = "open"
    /\ cancelled
    /\ ~fused[c]
    /\ fused' = [fused EXCEPT ![c] = TRUE]
    /\ conn' = [conn EXCEPT ![c] = "failed"]
    /\ busy' = [busy EXCEPT ![c] = FALSE]
    /\ tracker' = tracker \ {c}
    /\ UNCHANGED <<codecVars, callNo, endpoint, serveVars, tokenVars, supPc, cur,
                   trackerClosed, acceptErrors, graceful>>

\* ------------------------------------------------------ connection tasks
\* HandlerCancel as it would be if cloned_token.cancelled() were awaited
\* afresh in every round of the loop instead of once through a fuse.
HandlerCancelUnfused(c) ==
    /\ conn[c] = "open"
    /\ cancelled
    /\ graceful[c] <= MaxCancels
    /\ fused' = [fused EXCEPT ![c] = TRUE]
    /\ graceful' = [graceful EXCEPT ![c] = @ + 1]
    /\ UNCHANGED <<codecVars, callNo, endpoint, serveVars, tokenVars, supVars, conn,
                   busy>>

\* select!: the fused cancellation future is ready: graceful_shutdown().
HandlerCancel(c) ==
    /\ conn[c] = "open"
    /\ cancelled
    /\ ~fused[c]
    /\ fused' = [fused EXCEPT ![c] = TRUE]
    /\ graceful' = [graceful EXCEPT ![c] = @ + 1]
    /\ UNCHANGED <<codecVars, callNo, endpoint, serveVars, tokenVars, supVars, conn,
                   busy>>

\* HandlerFinish as it would be if a connection error were escalated by
\* cancelling the shared token.
HandlerFinishEscalates(c) ==
    /\ conn[c] = "open"
    /\ \E ok \in BOOLEAN :
         /\ ok => ~busy[c]
         /\ conn' = [conn EXCEPT ![c] = IF ok THEN "done" ELSE "failed"]
         /\ cancelled' = (cancelled \/ ~ok)
    /\ busy' = [busy EXCEPT ![c] = FALSE]
    /\ tracker' = tracker \ {c}
    /\ UNCHANGED <<codecVars, callNo, endpoint, serveVars, cancelCalls, supPc, cur,
                   trackerClosed, acceptErrors, graceful, fused>>

\* select!: the connection future is ready (Ok or Err): break, task ends.
HandlerFinish(c) ==
    /\ conn[c] = "open"
    /\ \E ok \in BOOLEAN :
         /\ ok => ~busy[c]
         /\ conn' = [conn EXCEPT ![c] = IF ok THEN "done" ELSE "failed"]
    /\ busy' = [busy EXCEPT ![c] = FALSE]
    /\ tracker' = tracker \ {c}
    /\ UNCHANGED <<codecVars, callNo, endpoint, serveVars, tokenVars, supPc, cur,
                   trackerClosed, acceptErrors, graceful, fused>>

\* ----------------------------------------------------------- environment
\* A client connects: queued in the backlog of a listening socket, refused
\* otherwise.  Connections are numbered in the order of their attempts.
Connect(c) ==
    /\ conn[c] = "idle"
    /\ \A d \in Conns : d < c => conn[d] # "idle"
    /\ conn' = [conn EXCEPT ![c] = IF listener = "held" THEN "pending"
                                   ELSE "refused"]
    /\ UNCHANGED <<codecVars, callNo, endpoint, serveVars, tokenVars, supVars, graceful, fused, busy>>

\* A client sends a request on an open connection; after graceful_shutdown
\* the connection takes no new exchange.
StartExchange(c) ==
    /\ conn[c] = "open"
    /\ ~busy[c]
    /\ graceful[c] = 0
    /\ busy' = [busy EXCEPT ![c] = TRUE]
    /\ UNCHANGED <<codecVars, callNo, endpoint, serveVars, tokenVars, supVars, conn, graceful, fused>>

\* The request handler answers the exchange in progress.
FinishExchange(c) ==
    /\ conn[c] = "open"
    /\ busy[c]
    /\ busy' = [busy EXCEPT ![c] = FALSE]
    /\ UNCHANGED <<codecVars, callNo, endpoint, serveVars, tokenVars, supVars, conn, graceful, fused>>

\* token.cancel(): idempotent.
Cancel ==
    /\ cancelCalls < MaxCancels
    /\ cancelled' = TRUE
    /\ cancelCalls' = cancelCalls + 1
    /\ UNCHANGED <<codecVars, callNo, endpoint, serveVars, supVars, connVars>>

\* The caller calls serve() again once the previous call has ended (it
\* returned an error, or its supervisor task completed), with a new token;
\* the clients of the new call are new connections.
NewCall ==
    /\ callNo < MaxCalls
    /\ servePc = "err" \/ supPc = "done"
    /\ callNo' = callNo + 1
    /\ endpoint' \in Endpoints
    /\ servePc' = "start"
    /\ listener' = "none"
    /\ guard' = "none"
    /\ events' = <<>>
    /\ cancelled' = FALSE
    /\ cancelCalls' = 0
    /\ supPc' = "none"
    /\ trackerClosed' = FALSE
    /\ acceptErrors' = 0
    /\ conn' = [c \in Conns |-> "idle"]
    /\ graceful' = [c \in Conns |-> 0]
    /\ fused' = [c \in Conns |-> FALSE]
    /\ UNCHANGED <<codecVars, file, cur, tracker, busy>>

Next ==
    \/ BindInet
    \/ OnBoundInet
    \/ BindUnix
    \/ Chown
    \/ Chmod
    \/ OnBoundUnix
    \/ EarlyDropGuard
    \/ EarlyDropListener
    \/ SpawnSupervisor
    \/ \E c \in Conns : Accept(c)
    \/ AcceptErr
    \/ Break
    \/ TrackerSpawn
    \/ DropListener
    \/ TrackerClose
    \/ TrackerWait
    \/ TaskDropGuard
    \/ \E c \in Conns : HandlerCancel(c)
    \/ \E c \in Conns : HandlerFinish(c)
    \/ \E c \in Conns : Connect(c)
    \/ \E c \in Conns : StartExchange(c)
    \/ \E c \in Conns : FinishExchange(c)
    \/ Cancel
    \/ NewCall

Spec == Init /\ [][Next]_vars

\* The tokio runtime polls a spawned task whenever it is woken, so a step
\* of the supervisor task or of a handler task that stays possible is
\* eventually taken.  Clients and the caller of cancel() are under no such
\* obligation, and a connection may stay open for ever.
SupervisorFairness ==
    /\ WF_vars(Break)
    /\ WF_vars(TrackerSpawn)
    /\ WF_vars(DropListener)
    /\ WF_vars(TrackerClose)
    /\ WF_vars(TrackerWait)
    /\ WF_vars(TaskDropGuard)

HandlerFairness == \A c \in Conns : WF_vars(HandlerCancel(c))

FairSpec == Spec /\ SupervisorFairness /\ HandlerFairness

\* ------------------------------------------------------- codec in isolation
\* Endpoint::from_str, serialize and deserialize are pure: they are applied
\* to every address string and every Endpoint value within the bounds, with
\* no serve() call in progress.
serviceVars == <<callNo, endpoint, serveVars, tokenVars, supVars, connVars>>

CodecInit ==
    /\ text \in Strings
    /\ original \in EndpointValues
    /\ parsed = None
    /\ wire = None
    /\ back = None
    /\ callNo = 1
    /\ endpoint = Inet
    /\ servePc = "start"
    /\ listener = "none"
    /\ guard = "none"
    /\ file = NoFile
    /\ events = <<>>
    /\ cancelled = FALSE
    /\ cancelCalls = 0
    /\ supPc = "none"
    /\ cur = None
    /\ conn = [c \in Conns |-> "idle"]
    /\ graceful = [c \in Conns |-> 0]
    /\ fused = [c \in Conns |-> FALSE]
    /\ busy = [c \in Conns |-> FALSE]
    /\ tracker = {}
    /\ trackerClosed = FALSE
    /\ acceptErrors = 0

\* text.parse::<Endpoint>()
FromStrStep ==
    /\ parsed = None
    /\ parsed' = Some(EndpointFromStr(text))
    /\ UNCHANGED <<serviceVars, text, original, wire, back>>

\* original.serialize(serializer)
SerializeStep ==
    /\ wire = None
    /\ wire' = Some(Serialize(original))
    /\ UNCHANGED <<serviceVars, text, original, parsed, back>>

\* Endpoint::deserialize(deserializer) on what serialize wrote
DeserializeStep ==
    /\ back = None
    /\ \E w \in wire :
         back' = Some(Deserialize(w))
    /\ UNCHANGED <<serviceVars, text, original, parsed, wire>>

CodecNext ==
    \/ FromStrStep
    \/ SerializeStep
    \/ DeserializeStep

CodecSpec == CodecInit /\ [][CodecNext]_vars

TypeOK ==
    /\ callNo \in 1..MaxCalls
    /\ endpoint \in Endpoints
    /\ servePc \in {"start", "bound", "midperm", "provisioned", "notified",
                    "failing", "ok", "err"}
    /\ listener \in {"none", "held", "released"}
    /\ guard \in {"none", "held", "dropped"}
    /\ supPc \in {"none", "select", "spawning", "broken", "closing",
                  "waiting", "listened", "done"}
    /\ conn \in [Conns -> {"idle", "pending", "refused", "reset", "accepted",
                           "open", "done", "failed"}]
    /\ tracker \subseteq Conns
    /\ cancelled \in BOOLEAN

\* ================================================================ claims
\* the supervisor has taken the token.cancelled() branch and left the loop
Observed == supPc \in {"broken", "closing", "waiting", "listened", "done"}
\* the connection is in the hands of listen or of its handler task
Live(c) == conn[c] \in {"accepted", "open"}

\* C1: once the accept loop has observed cancellation, no connection is
\* accepted and no handler task is spawned afterwards.
C1_NoAcceptAfterObserved ==
    [][Observed =>
          \A c \in Conns :
              /\ conn'[c] = "accepted" => conn[c] = "accepted"
              /\ conn'[c] = "open" => conn[c] = "open"
              /\ c \in tracker' => c \in tracker]_vars

\* C1 witness: cancellation has been observed while a connection waits in
\* the backlog and another one is being served.
C1_Witness ==
    /\ supPc = "broken"
    /\ \E c \in Conns : conn[c] = "pending"
    /\ \E c \in Conns : conn[c] = "open"

\* C2 as stated: no connection is accepted while the token is cancelled.
C2_NoAcceptAfterCancel ==
    [][\A c \in Conns :
          cancelled => ~(conn[c] = "pending" /\ conn'[c] = "accepted")]_vars

\* C2 amended: a connection is accepted only at the head of the accept loop
\* with the listener held (so it can still be accepted after the token is
\* cancelled when accept wins the select); once the loop has stopped the
\* listener is released, a connection still pending at the release is
\* reset, a connection attempted afterwards is refused, and neither is ever
\* accepted.
C2_RefusedOnceStopped ==
    [][\A c \in Conns :
          /\ supPc' \in {"closing", "waiting", "listened", "done"}
                => listener' = "released"
          /\ (conn[c] = "pending" /\ conn'[c] = "accepted")
                => (supPc = "select" /\ listener = "held")
          /\ (conn[c] = "pending" /\ listener' # "held")
                => conn'[c] = "reset"
          /\ (conn[c] = "idle" /\ conn'[c] # "idle" /\ listener # "held")
                => conn'[c] = "refused"
          /\ conn[c] \in {"refused", "reset"}
                => conn'[c] \in {conn[c], "idle"}]_vars

\* C2 witness: the token is cancelled, the loop has stopped, one connection
\* was reset in the backlog and another attempt was refused.
C2_Witness ==
    /\ cancelled
    /\ supPc = "closing"
    /\ \E c \in Conns : conn[c] = "reset"
    /\ \E c \in Conns : conn[c] = "refused"

\* C3: when the drain wait has returned (the supervisor task is past
\* tracker.wait()), no accepted connection is still open.
C3_DrainedBeforeDone ==
    supPc \in {"listened", "done"} =>
        /\ tracker = {}
        /\ \A c \in Conns : ~Live(c)

\* C3 witness: the supervisor completed after a connection that was asked
\* to shut down gracefully had finished.
C3_Witness ==
    /\ supPc = "done"
    /\ \E c \in Conns : conn[c] = "done" /\ graceful[c] = 1

\* C4: at the head of the accept loop, and from there until the drain wait
\* returns, the tracker holds a task for every accepted connection that has
\* not finished.
C4_RegisteredBeforeNextIteration ==
    supPc \in {"select", "broken", "closing", "waiting"} =>
        \A c \in Conns : Live(c) => (c \in tracker /\ conn[c] = "open")

\* C4 witness: the loop is back at its head with one connection tracked
\* and the next one pending.
C4_Witness ==
    /\ supPc = "select"
    /\ \E c \in Conns : c \in tracker /\ conn[c] = "open"
    /\ \E c \in Conns : conn[c] = "pending"

\* ---------------------------------------------------------------- C5..C10
\* remove_file calls made by the PathGuard of this serve call
Removals == Count("remove_ok") + Count("remove_err")
\* runs of set_permissions (it starts with chown)
ProvisionRuns == Count("chown_ok") + Count("chown_err")
\* set_permissions returned an error
PermFailed == Count("chown_err") + Count("chmod_err") > 0
OnBoundCalls == Count("onBound_some") + Count("onBound_none")
\* the serve call and everything it spawned have ended
CallEnded == servePc = "err" \/ supPc = "done"
BoundUnix == endpoint.kind = "Unix" /\ Count("bind_ok") = 1

\* C5 as stated: for a Unix endpoint whose bind succeeded the socket file
\* is removed exactly once, and only after the listener has been released,
\* on the normal path and on the early return of serve_unix alike.
C5_RemovedOnceAfterRelease ==
    BoundUnix =>
        /\ Count("remove_ok") <= 1
        /\ Precedes({"listener_release"}, {"remove_ok"})
        /\ Count("remove_ok") = 1 => listener = "released"
        /\ CallEnded => Count("remove_ok") = 1

\* C6 as stated: once the supervisor task of a Unix endpoint has completed,
\* the socket file no longer exists.
C6_FileAbsentWhenDone ==
    (endpoint.kind = "Unix" /\ supPc = "done") => ~file.exists

\* C6 amended: once the supervisor task of a Unix endpoint has completed,
\* the guard has been dropped and remove_file has run exactly once, after
\* the listener was released; the file is absent unless that call failed.
C6_RemovalAttemptedWhenDone ==
    (endpoint.kind = "Unix" /\ supPc = "done") =>
        /\ guard = "dropped"
        /\ Removals = 1
        /\ Precedes({"listener_release"}, {"remove_ok", "remove_err"})
        /\ file.exists <=> Count("remove_err") = 1

\* C6 witness: a Unix supervisor completed and the socket file is gone.
C6_Witness ==
    /\ endpoint.kind = "Unix"
    /\ supPc = "done"
    /\ Count("remove_ok") = 1
    /\ ~file.exists

\* C7 as stated: when set_permissions fails after a successful bind, serve
\* returns an error, the listener is released, the socket file is removed,
\* no supervisor is spawned and the path can be bound again.
C7_PermissionFailureLeavesNothing ==
    PermFailed =>
        /\ servePc \in {"failing", "err"}
        /\ supPc = "none" /\ Count("spawn") = 0
        /\ servePc = "err" =>
              /\ listener = "released"
              /\ ~file.exists
              /\ CanBindUnix

\* C7 amended: when set_permissions fails after a successful bind, serve
\* returns an error without calling onBound or spawning a supervisor, no
\* connection is accepted, the listener is released and the guard dropped;
\* remove_file has run exactly once, and the file is gone and the path can
\* be bound again exactly when that call succeeded.
C7_PermissionFailureTearsDown ==
    PermFailed =>
        /\ servePc \in {"failing", "err"}
        /\ supPc = "none" /\ Count("spawn") = 0 /\ OnBoundCalls = 0
        /\ \A c \in Conns : conn[c] \in {"idle", "pending", "refused", "reset"}
        /\ servePc = "err" =>
              /\ listener = "released"
              /\ guard = "dropped"
              /\ Removals = 1
              /\ CanBindUnix <=> Count("remove_ok") = 1

\* C7 witness: serve returned an error for an owner name that does not
\* exist, and the path is free again.
C7_Witness ==
    /\ endpoint.owner = Some(<<"g">>)
    /\ events = <<"bind_ok", "chown_err", "remove_ok", "listener_release">>
    /\ servePc = "err"
    /\ listener = "released"
    /\ CanBindUnix

\* C8 as stated: set_permissions runs exactly once per serve call on a
\* Unix endpoint, after bind succeeded and before any client can connect
\* to the socket; never for an Inet endpoint or when bind failed.
C8_ProvisionedBeforeReachable ==
    /\ ProvisionRuns <= 1
    /\ Precedes({"bind_ok"}, {"chown_ok", "chown_err", "chmod_ok", "chmod_err"})
    /\ ProvisionRuns = 1 => endpoint.kind = "Unix"
    /\ (BoundUnix /\ servePc \notin {"bound"}) => ProvisionRuns = 1
    /\ (BoundUnix /\ servePc \in {"bound", "midperm"}) =>
          \A c \in Conns : conn[c] # "pending"

\* C9: within set_permissions the mode change is only ever applied after
\* chown returned Ok; when owner/group resolution or the chown call fails,
\* chmod is never attempted and the error is returned.
C9_ChownBeforeChmod ==
    /\ Precedes({"chown_ok"}, {"chmod_ok", "chmod_err"})
    /\ servePc = "midperm" => Count("chown_ok") = 1
    /\ Count("chown_err") > 0 =>
          /\ Count("chmod_ok") + Count("chmod_err") = 0
          /\ servePc \in {"failing", "err"}
          /\ file.exists => file.mode = DefaultMode

\* C9 witness: ownership was changed, then the set-uid mode was applied and
\* is what the file carries.
C9_Witness ==
    /\ events = <<"bind_ok", "chown_ok", "chmod_ok">>
    /\ file.uid = <<"7">>
    /\ file.mode = 2541

\* C10 as stated: onBound is invoked exactly once per serve call.
C10_OnBoundOncePerCall ==
    servePc \in {"ok", "err"} => OnBoundCalls = 1

\* C10 amended: onBound is invoked at most once per serve call: exactly
\* once, before the supervisor is spawned and before any connection is
\* accepted, in a call that returns Ok, and never in a call that returns an
\* error; it receives the local address exactly when the endpoint is TCP
\* and local_addr() succeeded, and no address otherwise.
C10_OnBoundOncePerSuccessfulCall ==
    /\ OnBoundCalls <= 1
    /\ servePc \in {"notified", "ok"} => OnBoundCalls = 1
    /\ servePc \in {"failing", "err"} => OnBoundCalls = 0
    /\ Precedes({"onBound_some", "onBound_none"}, {"spawn"})
    /\ OnBoundCalls = 0 =>
          /\ supPc = "none"
          /\ \A c \in Conns : conn[c] \in {"idle", "pending", "refused", "reset"}
    /\ Count("onBound_some") = 1 <=>
          (endpoint.kind = "Inet" /\ Count("addr_ok") = 1)
    /\ Count("onBound_none") = 1 <=>
          \/ endpoint.kind = "Inet" /\ Count("addr_err") = 1
          \/ endpoint.kind = "Unix" /\ servePc \in {"notified", "ok"}

\* C10 witness: a TCP serve call returned Ok after passing the local
\* address to onBound, and its supervisor has accepted a connection.
C10_Witness ==
    /\ events = <<"bind_ok", "addr_ok", "onBound_some", "spawn">>
    /\ servePc = "ok"
    /\ \E c \in Conns : conn[c] = "open"

\* --------------------------------------------------------------- C11..C15
\* the accept loop of listen is running
Looping == supPc \in {"select", "spawning"}

\* C11: a failed accept changes nothing but the log: the loop is still at
\* its head with the listener held, the tracker and every connection are as
\* they were, and a pending connection can be accepted next; the loop is
\* left only by observing cancellation.
C11_AcceptErrorNotFatal ==
    [][/\ acceptErrors' > acceptErrors =>
             /\ supPc = "select" /\ supPc' = "select"
             /\ listener' = "held"
             /\ UNCHANGED <<tracker, trackerClosed, cur, connVars, tokenVars,
                            serveVars>>
       /\ (acceptErrors > 0 /\ supPc = "select") =>
             \A c \in Conns : conn[c] = "pending" => ENABLED Accept(c)
       /\ Looping => listener = "held"
       /\ (Looping /\ ~Looping') => (cancelled /\ supPc' = "broken")]_vars

\* C11 witness: after a failed accept the loop is at its head, not
\* cancelled, serving one connection with the next one pending.
C11_Witness ==
    /\ acceptErrors = MaxAcceptErrors
    /\ supPc = "select"
    /\ ~cancelled
    /\ \E c \in Conns : conn[c] = "open"
    /\ \E c \in Conns : conn[c] = "pending"

\* C12: a handler calls graceful_shutdown at most once, and only through
\* its fuse; a cancel() on a token that is already cancelled changes
\* nothing in the supervisor, the handlers or the connections.
C12_CancelIdempotent ==
    [][/\ \A c \in Conns :
             /\ graceful'[c] <= 1
             /\ graceful'[c] > graceful[c] => (~fused[c] /\ fused'[c])
       /\ (cancelled /\ cancelCalls' > cancelCalls) =>
             UNCHANGED <<cancelled, serveVars, supVars, connVars>>]_vars

\* C12 witness: the token was cancelled twice and an open connection has
\* been asked to shut down gracefully once.
C12_Witness ==
    /\ cancelCalls = 2
    /\ \E c \in Conns : conn[c] = "open" /\ graceful[c] = 1 /\ fused[c]
\* C13: a connection that ends with an error ends only its own task: every
\* other connection, the token, the listener and the supervisor are as they
\* were, and every other open connection can still complete; the
\* supervisor's tracker loses that task and nothing else.
C13_ErrorIsolated ==
    [][\A c \in Conns :
          (conn[c] = "open" /\ conn'[c] = "failed") =>
              /\ \A d \in Conns \ {c} :
                    /\ conn'[d] = conn[d]
                    /\ busy'[d] = busy[d]
                    /\ graceful'[d] = graceful[d]
                    /\ fused'[d] = fused[d]
                    /\ conn[d] = "open" => (ENABLED HandlerFinish(d))'
              /\ tracker' = tracker \ {c}
              /\ UNCHANGED <<supPc, cur, trackerClosed, acceptErrors,
                             tokenVars, serveVars>>]_vars

\* C13 witness: one connection failed while the other is still in an
\* exchange and the accept loop is running.
C13_Witness ==
    /\ supPc = "select"
    /\ ~cancelled
    /\ \E c, d \in Conns :
          conn[c] = "failed" /\ conn[d] = "open" /\ busy[d]

\* C14: while cancellation has not been observed the supervisor never
\* waits for a connection: back at the loop head it can accept any pending
\* connection whatever the earlier ones are doing, and between accept and
\* the next select it only has the spawn to do.
C14_AcceptNeverWaits ==
    /\ supPc = "select" =>
          \A c \in Conns : conn[c] = "pending" => ENABLED Accept(c)
    /\ supPc = "spawning" => ENABLED TrackerSpawn

\* C14 witness: a connection is pending at the loop head while an earlier
\* one is in the middle of an exchange.
C14_Witness ==
    /\ supPc = "select"
    /\ \E c, d \in Conns :
          conn[c] = "open" /\ busy[c] /\ c \in tracker /\ conn[d] = "pending"

\* bind returned an error in this serve call
BindFailed == Count("bind_err") > 0

\* C15: when bind fails serve returns the error at once and leaves nothing
\* behind: no listener, no guard, no supervisor, no set_permissions, no
\* onBound, no accepted connection; the failed bind and everything after it
\* leave the path as it was, so a file already there is not removed.
C15_BindFailureLeavesNothing ==
    [][BindFailed' =>
          /\ events' = <<"bind_err">>
          /\ servePc' = "err"
          /\ listener' = "none"
          /\ guard' = "none"
          /\ supPc' = "none"
          /\ file' = file
          /\ \A c \in Conns : ~Live(c)']_vars

\* C15 witness: a Unix bind failed on a path that holds a file, and the
\* file is still there.
C15_Witness ==
    /\ endpoint.kind = "Unix"
    /\ events = <<"bind_err">>
    /\ servePc = "err"
    /\ file.exists

\* C16: parsing never fails, and its result is the one the rule gives: a
\* string that starts with '/' is a Unix endpoint with exactly that path and
\* no mode, owner or group; any other string (the empty one included) is an
\* Inet endpoint holding the string unchanged.
C16_ParseMatchesRule ==
    /\ parsed = None => ENABLED FromStrStep
    /\ \A r \in parsed :
          /\ r.ok
          /\ IF text # <<>> /\ text[1] = "/"
             THEN /\ r.v.kind = "Unix"
                  /\ ToStr(r.v.uds.path) = text
                  /\ r.v.uds.mode = None
                  /\ r.v.uds.owner = None
                  /\ r.v.uds.group = None
             ELSE /\ r.v.kind = "Inet"
                  /\ r.v.addr = text

\* C16 witness: a string with a '/' that is not its first character has
\* been parsed.
C16_Witness ==
    /\ parsed # None
    /\ Len(text) = MaxLen
    /\ text[1] # "/"
    /\ text[MaxLen] = "/"

\* C20 as claimed: deserializing what serialize wrote gives back the
\* Endpoint that was serialized, whatever the Endpoint.
C20_RoundTrip ==
    \A e \in back : e = original

\* C17: a connection task is in the tracker exactly while its connection is
\* open, and it ends only by the connection reporting completion (Ok or
\* Err), which it can do whether or not the token is cancelled.  A
\* token.cancel() ends no task, and the handler's cancellation branch (the
\* fused future completing, the graceful_shutdown request) never ends it
\* either: the task stays tracked, the connection open, and the exchange in
\* progress able to finish.
C17_EndsOnCompletionOnly ==
    [][/\ \A c \in Conns :
            /\ (c \in tracker) <=> (conn[c] = "open")
            /\ conn[c] = "open" => ENABLED HandlerFinish(c)
            /\ (c \in tracker /\ c \notin tracker') =>
                    /\ conn'[c] \in {"done", "failed"}
                    /\ graceful'[c] = graceful[c]
                    /\ fused'[c] = fused[c]
            /\ (graceful'[c] > graceful[c] \/ (~fused[c] /\ fused'[c])) =>
                    /\ conn'[c] = "open"
                    /\ c \in tracker'
                    /\ busy'[c] = busy[c]
                    /\ busy[c] => (ENABLED FinishExchange(c))'
       /\ cancelCalls' > cancelCalls => UNCHANGED <<connVars, tracker>>]_vars

\* C17 witness: the token is cancelled, the handler has asked for the
\* graceful shutdown, and the connection is still open in mid-exchange with
\* its task tracked.
C17_Witness ==
    /\ cancelled
    /\ \E c \in Conns :
          conn[c] = "open" /\ graceful[c] = 1 /\ busy[c] /\ c \in tracker

\* C18: once the token is cancelled, an open connection's handler
\* eventually calls graceful_shutdown on it unless the connection completes
\* first; the same holds for a connection that accept returned while the
\* token was already cancelled, whose handler is spawned afterwards.
C18_CancelReachesHandler ==
    \A c \in Conns :
        /\ (cancelled /\ conn[c] = "open") ~>
                (graceful[c] = 1 \/ conn[c] # "open")
        /\ (cancelled /\ conn[c] = "accepted") ~>
                (graceful[c] = 1 \/ ~Live(c))

\* C18 witness: with the token cancelled and the loop not yet left, one
\* handler has requested the graceful shutdown of its open connection while
\* accept has just returned a further connection.
C18_Witness ==
    /\ cancelled
    /\ supPc = "spawning"
    /\ \E c, d \in Conns :
          /\ conn[c] = "accepted"
          /\ conn[d] = "open" /\ graceful[d] = 1

\* C19: if every accepted connection eventually completes, then once the
\* token is cancelled a running supervisor task eventually completes, for a
\* Unix endpoint with the removal of the socket file attempted; and the
\* drain wait ends by nothing but the tracker being empty, so the task
\* never completes while an accepted connection stays open.
C19_CompletesWhenDrained ==
    /\ (\A c \in Conns : []<>(~Live(c))) =>
          ((cancelled /\ supPc # "none") ~>
              (supPc = "done" /\ (endpoint.kind = "Unix" => Removals = 1)))
    /\ [][(supPc = "waiting" /\ supPc' # "waiting") =>
              (tracker = {} /\ \A c \in Conns : ~Live(c))]_vars
    /\ [](supPc = "done" => \A c \in Conns : ~Live(c))

\* C19 witness: the supervisor of a Unix endpoint has completed after
\* draining a connection that was still open when the token was cancelled.
C19_Witness ==
    /\ supPc = "done"
    /\ endpoint.kind = "Unix"
    /\ cancelled
    /\ Removals = 1
    /\ \E c \in Conns : conn[c] \in {"done", "failed"} /\ graceful[c] = 1
====
